---- MODULE Spec2Model ----
(***************************************************************************)
(* Pagination / overflow engine of the document editor (renderer process). *)
(*                                                                         *)
(* A page is a record [num, ed]: the text of its .page-number element and  *)
(* the child nodes of its .editor region.  A node is [k, h, raw]:          *)
(*   k   "elem" (an element holding text: paragraph, table, ...), "img"    *)
(*       (an element without text: an image), "text" (a text node that is  *)
(*       a direct child of the editor) or "br" (a <br>);                   *)
(*   h   the height the layout gives the node;                             *)
(*   raw for a text node: its characters include markup characters         *)
(*       (< or &), so its textContent differs from its serialisation.      *)
(* Editors are referred to by the position of their page (1-based); a      *)
(* reference to an editor whose page has been removed from the document is *)
(* DetachedText (it still holds text) or DetachedEmpty; 0 is "none".       *)
(*                                                                         *)
(* typingTimer is the editor the timeout held in this.typingTimer will     *)
(* check, 0 when that timeout has fired, was cleared or was never set;     *)
(* orphans are the editors of the timeouts still pending whose handle      *)
(* this.typingTimer no longer holds.  unchecked are the pages whose region *)
(* had an input event since checkPageOverflow last measured it.  tempDivs   *)
(* is the number of measuring elements (tempDiv) that are children of      *)
(* document.body.                                                          *)
(*                                                                         *)
(* The main process: mainCurrentFilePath and documentIsModified are its    *)
(* variables currentFilePath and documentIsModified, recentFiles its list  *)
(* of recent files, savedStatusListeners the number of listeners it has    *)
(* registered (once) for 'document-saved-status', window whether the       *)
(* BrowserWindow is "open" or "closed", inflight the invocations of the    *)
(* renderer it has not answered yet.                                       *)
(***************************************************************************)
EXTENDS Integers, Sequences, FiniteSets, TLC

VARIABLES pages, typingTimer, orphans, unchecked, activeElement,
          selectedEditor, currentPage, totalPages, documentModified,
          currentFilePath, pageHeight, tempDivs, last,
          mainCurrentFilePath, documentIsModified, recentFiles,
          savedStatusListeners, window, inflight

\* the renderer process (DocumentEditor and its document)
rendererVars == <<pages, typingTimer, orphans, unchecked, activeElement, selectedEditor,
                  currentPage, totalPages, documentModified, currentFilePath,
                  pageHeight, tempDivs>>

\* the main process, and the invocations it has not answered yet
hostVars == <<mainCurrentFilePath, documentIsModified, recentFiles,
              savedStatusListeners, window, inflight>>

vars == <<rendererVars, last, hostVars>>

----------------------------------------------------------------------------
(* Bounds of the model *)

\* most nodes a document holds for the user still to type another
MaxNodes == 2
\* most nodes and pages of the document layouts InitLayout starts from
MaxLayoutNodes == 2
MaxLayoutPages == 2
\* most pages of a document the user still works on (beyond it the user only
\* removes pages or starts a new document)
MaxPages == 3
\* most blocks of a document on disk
MaxDocNodes == 5
\* deepest nesting of checkPageOverflow calls the engine's call stack takes
MaxStack == 5
\* most invocations of the main process awaiting their reply
MaxInFlight == 1
\* most measuring elements left in document.body for a call stack still to
\* be exhausted inside extractOverflowContent
MaxTempDivs == 1

\* files opened before the step looked at
MaxOpens == 5

(* Program constants *)

\* this.pageHeight = 1120 (constructor and fallback)
DefaultPageHeight == 1120
\* "+ 5": the buffer added to pageHeight in the overflow test
Tolerance == 5
\* const MAX_RECENT_FILES = 5
MAX_RECENT_FILES == 5

(* The rendering environment *)

\* a node of a region: kind, height in the layout, raw text
Elem(h) == [k |-> "elem", h |-> h, raw |-> FALSE]
Text(h, raw) == [k |-> "text", h |-> h, raw |-> raw]
Br == [k |-> "br", h |-> 0, raw |-> FALSE]
Img(h) == [k |-> "img", h |-> h, raw |-> FALSE]

\* the blocks the user types
InputShapes == {Elem(605), Elem(1100)}

\* the blocks of the documents on disk
DocShapes == {Elem(300), Elem(400), Elem(500), Elem(700)}

\* the blocks of the document layouts InitLayout starts from
LayoutShapes == {Elem(400), Elem(605), Elem(1100), Text(400, TRUE), Br, Img(605)}

\* computed geometry of the first page: [height, header, footer, pad, edPad, edMargin]
\* (pad, edPad and edMargin count top and bottom each)
Geometry(height, header, footer, pad, edPad, edMargin) ==
    [height |-> height, header |-> header, footer |-> footer,
     padTop |-> pad, padBottom |-> pad,
     edPadTop |-> edPad, edPadBottom |-> edPad,
     edMarTop |-> edMargin, edMarBottom |-> edMargin]

Geometries == { Geometry(1122, 40, 40, 11, 10, 0),    \* usable 1000
                Geometry(122, 40, 40, 11, 10, 0),     \* usable 0: fallback
                Geometry(100, 40, 40, 11, 10, 0) }    \* usable -22: fallback

\* no geometry read
NoGeometry == Geometry(0, 0, 0, 0, 0, 0)

DetachedText == -1
DetachedEmpty == -2

----------------------------------------------------------------------------
(* Sequences *)

RECURSIVE SumHeights(_)
SumHeights(nodes) ==
    IF nodes = <<>> THEN 0 ELSE Head(nodes).h + SumHeights(Tail(nodes))

RECURSIVE Flatten(_)
Flatten(ss) == IF ss = <<>> THEN <<>> ELSE Head(ss) \o Flatten(Tail(ss))

\* the sequences over S of length at most n
RECURSIVE SeqsUpTo(_, _)
SeqsUpTo(S, n) ==
    IF n = 0 THEN {<<>>}
    ELSE LET shorter == SeqsUpTo(S, n - 1)
         IN shorter \cup {Append(q, x) : q \in {t \in shorter : Len(t) = n - 1}, x \in S}

----------------------------------------------------------------------------
(* DOM readings *)

\* editor.scrollHeight: the full height of the region's content
ScrollHeight(nodes) == SumHeights(nodes)

\* node.offsetHeight: a number for an element, undefined for a text node
OffsetHeightDefined(node) == node.k # "text"
OffsetHeight(node) == node.h

\* editor.innerText.trim() !== '': an image and a <br> render no text
HasInnerText(nodes) == \E i \in 1..Len(nodes) : nodes[i].k \notin {"br", "img"}

\* innerHTML.trim().replace(<br>).replace(&nbsp;).trim() === ''
IsBlankHTML(nodes) == \A i \in 1..Len(nodes) : nodes[i].k = "br"

\* Markup is a sequence of tokens: a node with esc = TRUE when its text is
\* escaped (innerHTML, outerHTML), FALSE when it is the bare textContent.
Token(node, esc) == [k |-> node.k, h |-> node.h, raw |-> node.raw, esc |-> esc]

\* element.innerHTML (getter): the serialisation of the children
RECURSIVE InnerHTML(_)
InnerHTML(nodes) ==
    IF nodes = <<>> THEN <<>>
    ELSE <<Token(Head(nodes), TRUE)>> \o InnerHTML(Tail(nodes))

\* node.outerHTML || node.textContent
OuterHTMLOrTextContent(node) ==
    IF node.k = "text" THEN Token(node, FALSE) ELSE Token(node, TRUE)

\* element.innerHTML = markup (setter): the HTML parser.  Unescaped text
\* holding markup characters is read as markup: it comes back as an element.
ParseToken(t) ==
    IF t.k = "text" /\ t.raw /\ ~t.esc
    THEN [k |-> "elem", h |-> t.h, raw |-> FALSE]
    ELSE [k |-> t.k, h |-> t.h, raw |-> t.raw]

RECURSIVE ParseHTML(_)
ParseHTML(markup) ==
    IF markup = <<>> THEN <<>>
    ELSE <<ParseToken(Head(markup))>> \o ParseHTML(Tail(markup))

----------------------------------------------------------------------------
(* The renderer's state as one record, threaded through the methods.       *)
(* log, err and cancelled are bookkeeping of the running handler: the      *)
(* checkPageOverflow calls made, whether a RangeError (call stack          *)
(* exhausted) is propagating, and whether a clearTimeout dropped a timeout *)
(* that was still pending.                                                 *)

Renderer ==
    [pages |-> pages, typingTimer |-> typingTimer, orphans |-> orphans,
     unchecked |-> unchecked,
     activeElement |-> activeElement, selectedEditor |-> selectedEditor,
     currentPage |-> currentPage, totalPages |-> totalPages,
     documentModified |-> documentModified,
     currentFilePath |-> currentFilePath, pageHeight |-> pageHeight,
     tempDivs |-> tempDivs,
     log |-> <<>>, err |-> FALSE, cancelled |-> FALSE]

\* What the environment does to one handler run: the page whose editor
\* measures a scrollHeight of 0 (not yet rendered; 0 for none), and the
\* frame in which an exhausted call stack surfaces.
Env(zeroPage, throwIn) == [zeroPage |-> zeroPage, throwIn |-> throwIn]

NoEnv == Env(0, "call")

\* The environments that make a difference to a handler run, base its
\* outcome under NoEnv: a zero measurement on a page the run checks (it can
\* only cut a cascade short), the frame of the RangeError if there is one:
\* the checkPageOverflow call itself, addPage, or extractOverflowContent
Envs(base) ==
    {Env(z, f) : z \in {0} \cup {base.log[i].page : i \in 1..Len(base.log)},
                 f \in IF base.err
                       THEN {"call", "addPage"} \cup
                            (IF base.tempDivs < MaxTempDivs THEN {"extract"} ELSE {})
                       ELSE {"call"}}

markDocumentAsModified(r) == [r EXCEPT !.documentModified = TRUE]

\* clearTimeout(this.typingTimer): the timeout the handle names is dropped
clearTimeout(r) ==
    [r EXCEPT !.typingTimer = 0, !.cancelled = @ \/ r.typingTimer # 0]

\* this.typingTimer = setTimeout(() => this.checkPageOverflow(editor), ...):
\* a timeout whose handle is overwritten while it is pending stays pending
setTimeout(r, editor) ==
    [r EXCEPT !.orphans = IF r.typingTimer = 0 THEN @ ELSE @ \cup {r.typingTimer},
              !.typingTimer = editor]

\* updateCurrentPage(editable): pages.indexOf(page) + 1
updateCurrentPage(r, p) ==
    IF p >= 1 THEN [r EXCEPT !.currentPage = p] ELSE r

\* el.focus() with the focus listener of setupPageEvents
FocusEditor(r, p) ==
    updateCurrentPage([r EXCEPT !.activeElement = p, !.selectedEditor = p], p)

\* forEach((page, index) => pageNumber.textContent = index + 1), index
\* the 0-based position of the first of ps
RECURSIVE NumberPages(_, _)
NumberPages(ps, index) ==
    IF ps = <<>> THEN <<>>
    ELSE <<[Head(ps) EXCEPT !.num = index + 1]>> \o NumberPages(Tail(ps), index + 1)

updatePageNumbers(r) ==
    [r EXCEPT !.pages = NumberPages(r.pages, 0),
              !.totalPages = Len(r.pages)]

\* updateStatusBar and updateWordCount only write display slots
updateUI(r) == updatePageNumbers(r)

focusFirstEditor(r) == FocusEditor(r, 1)

\* handleEditorInput: mark, then clearTimeout / setTimeout(check, 500)
\* handleEditorInput without its clearTimeout
handleEditorInputNoClear(r, p) ==
    setTimeout([markDocumentAsModified(r) EXCEPT !.unchecked = @ \cup {p}], p)

handleEditorInput(r, p) ==
    setTimeout(clearTimeout(
        [markDocumentAsModified(r) EXCEPT !.unchecked = @ \cup {p}]), p)

\* execCmd(command, value): document.execCommand on the focused editor (with
\* its input event when the command changed the content),
\* selectedEditor.focus(), markDocumentAsModified
execCmd(r, fired) ==
    LET p == r.activeElement
        r1 == IF fired /\ p >= 1
              THEN handleEditorInput(markDocumentAsModified(r), p) ELSE r
        r2 == IF r1.selectedEditor >= 1 THEN FocusEditor(r1, r1.selectedEditor) ELSE r1
    IN markDocumentAsModified(r2)

\* A reference to the editor of page p after the pages behind the first
\* were removed from the document.
AfterReset(r, ref) ==
    IF ref <= 1 THEN ref
    ELSE IF HasInnerText(r.pages[ref].ed) THEN DetachedText ELSE DetachedEmpty

\* resetDocument leaving this.currentFilePath as it is
resetDocumentKeepingPath(r) ==
    LET firstPage == [r.pages[1] EXCEPT !.ed = <<>>]
        r1 == [r EXCEPT !.pages = <<firstPage>>,
                        !.typingTimer = AfterReset(r, r.typingTimer),
                        !.orphans = {AfterReset(r, t) : t \in r.orphans},
                        !.unchecked = {},
                        !.currentPage = 1, !.totalPages = 1,
                        !.documentModified = FALSE]
    IN updateUI(focusFirstEditor(r1))

resetDocument(r) ==
    LET firstPage == [r.pages[1] EXCEPT !.ed = <<>>]
        r1 == [r EXCEPT !.pages = <<firstPage>>,
                        !.typingTimer = AfterReset(r, r.typingTimer),
                        !.orphans = {AfterReset(r, t) : t \in r.orphans},
                        !.unchecked = {},
                        !.currentPage = 1, !.totalPages = 1,
                        !.currentFilePath = "none",
                        !.documentModified = FALSE]
    IN updateUI(focusFirstEditor(r1))

\* addPage: clone the first page, clear it, append, focus, updateUI.
\* throws: the call stack is exhausted inside updateUI (updateWordCount),
\* after the page was appended and focused and before it is numbered.
addPage(r, throws) ==
    LET template == [r.pages[1] EXCEPT !.ed = <<>>]
        r1 == [r EXCEPT !.pages = Append(r.pages, template)]
        r2 == FocusEditor(r1, Len(r1.pages))
    IN IF throws THEN [r2 EXCEPT !.err = TRUE] ELSE updateUI(r2)

\* calculatePageDimensions
UsableHeight(g) ==
    g.height - g.header - g.footer - g.padTop - g.padBottom
        - g.edPadTop - g.edPadBottom - g.edMarTop - g.edMarBottom

\* calculatePageDimensions falling back only below zero
calculatePageDimensionsBelowZero(r, g) ==
    [r EXCEPT !.pageHeight = IF UsableHeight(g) < 0 THEN DefaultPageHeight
                             ELSE UsableHeight(g)]

calculatePageDimensions(r, g) ==
    [r EXCEPT !.pageHeight = IF UsableHeight(g) <= 0 THEN DefaultPageHeight
                             ELSE UsableHeight(g)]

----------------------------------------------------------------------------
(* extractOverflowContent *)

\* The measuring loop over tempNodes, from index i (0-based) with running
\* total cur; nan: the total is NaN (an undefined offsetHeight was added).
\* Returns splitIndex, -1 when the loop ends without a split.
\* the measuring loop splitting already when the total reaches maxHeight
RECURSIVE SplitLoopReaching(_, _, _, _, _)
SplitLoopReaching(tempNodes, i, cur, nan, maxHeight) ==
    IF i >= Len(tempNodes) THEN -1
    ELSE LET node == tempNodes[i + 1]
             nanSum == nan \/ ~OffsetHeightDefined(node)
         IN IF ~nanSum /\ cur + OffsetHeight(node) >= maxHeight
            THEN i
            ELSE SplitLoopReaching(tempNodes, i + 1,
                                   IF nanSum THEN 0 ELSE cur + OffsetHeight(node),
                                   nanSum, maxHeight)

RECURSIVE SplitLoop(_, _, _, _, _)
SplitLoop(tempNodes, i, cur, nan, maxHeight) ==
    IF i >= Len(tempNodes) THEN -1
    ELSE LET node == tempNodes[i + 1]
             nanSum == nan \/ ~OffsetHeightDefined(node)
         IN IF ~nanSum /\ cur + OffsetHeight(node) > maxHeight
            THEN i
            ELSE SplitLoop(tempNodes, i + 1,
                           IF nanSum THEN 0 ELSE cur + OffsetHeight(node),
                           nanSum, maxHeight)

\* overflowHTML += tempNodes[i].outerHTML || tempNodes[i].textContent, from
\* index i (0-based) to the end
RECURSIVE CollectOverflow(_, _)
CollectOverflow(tempNodes, i) ==
    IF i >= Len(tempNodes) THEN <<>>
    ELSE <<OuterHTMLOrTextContent(tempNodes[i + 1])>> \o CollectOverflow(tempNodes, i + 1)

\* [splitIndex, overflowHTML, editor]: editor is the region afterwards
extractOverflowContent(editor, maxHeight) ==
    LET tempNodes == ParseHTML(InnerHTML(editor))
        splitIndex == SplitLoop(tempNodes, 0, 0, FALSE, maxHeight)
    IN IF splitIndex # -1
       THEN LET kept == SubSeq(editor, 1, splitIndex)
            IN [splitIndex |-> splitIndex,
                overflowHTML |-> CollectOverflow(tempNodes, splitIndex),
                editor |-> IF kept = <<>> THEN <<Br>> ELSE kept]
       ELSE [splitIndex |-> -1, overflowHTML |-> <<>>, editor |-> editor]

----------------------------------------------------------------------------
(* checkPageOverflow *)

\* One entry of the handler's log, per checkPageOverflow call made: the
\* region before (pre) and after (post) the call's own split, the next
\* page's region before the call (next), where the overflow went (dest) and
\* the content of the destination region once the overflow was installed
\* there (installed).
LogEntry(r, p, depth, sh, x, dest, installed) ==
    [page |-> p, depth |-> depth, npages |-> Len(r.pages),
     scrollHeight |-> sh, capacity |-> r.pageHeight,
     pre |-> r.pages[p].ed, splitIndex |-> x.splitIndex,
     overflowHTML |-> x.overflowHTML, post |-> x.editor,
     next |-> IF p < Len(r.pages) THEN r.pages[p + 1].ed ELSE <<>>,
     dest |-> dest, installed |-> installed]

NoSplit(editor) == [splitIndex |-> -1, overflowHTML |-> <<>>, editor |-> editor]

Logged(r, e) ==
    [r EXCEPT !.log = Append(r.log, e),
              !.unchecked = IF e.dest = "retry" THEN @ ELSE @ \ {e.page}]

\* the overflow put behind the next page's content
AppendOverflow(overflowContent, nextPageEditor) ==
    ParseHTML(InnerHTML(nextPageEditor) \o overflowContent)

\* nextPageEditor.innerHTML = overflowContent + nextPageEditor.innerHTML
PrependOverflow(overflowContent, nextPageEditor) ==
    ParseHTML(overflowContent \o InnerHTML(nextPageEditor))

\* any overflow taken as content to move
TrimmedNonEmptyAlways(overflowContent) == TRUE

\* overflowContent.trim() !== ''
TrimmedNonEmpty(overflowContent) == overflowContent # <<>>

\* the overflow test without its buffer
OverflowsNoBuffer(scrollHeight, cap) == scrollHeight > cap

\* editor.scrollHeight > this.pageHeight + 5
Overflows(scrollHeight, cap) == scrollHeight > cap + Tolerance

\* checkPageOverflow(editor) for the editor of page p, at nesting depth
\* `depth` of the recursion.  A call nested deeper than MaxStack exhausts the
\* call stack: the RangeError unwinds every frame of the cascade, so no
\* frame's trailing updateUI runs.
RECURSIVE checkPageOverflow(_, _, _, _)
checkPageOverflow(r, p, depth, env) ==
    IF depth > MaxStack THEN [r EXCEPT !.err = TRUE]
    ELSE
    LET editor == r.pages[p].ed
        sh == IF env.zeroPage = p THEN 0 ELSE ScrollHeight(editor)
        cap == r.pageHeight
    IN
    IF sh = 0 /\ HasInnerText(editor)
    THEN \* retry: clearTimeout / setTimeout(check, 100); return
         setTimeout(clearTimeout(
             Logged(r, LogEntry(r, p, depth, sh, NoSplit(editor), "retry", <<>>))), p)
    ELSE IF Overflows(sh, cap) /\ env.throwIn = "extract" /\ depth = MaxStack
    THEN \* the RangeError surfaces inside extractOverflowContent, between
         \* appendChild(tempDiv) and removeChild(tempDiv)
         [r EXCEPT !.err = TRUE, !.tempDivs = @ + 1]
    ELSE IF Overflows(sh, cap)
    THEN
      LET x == extractOverflowContent(editor, cap)
          r1 == [r EXCEPT !.pages[p].ed = x.editor]
      IN
      IF TrimmedNonEmpty(x.overflowHTML)
      THEN
        IF p = Len(r.pages)
        THEN \* the last page: addPage, install, re-check the new editor
          LET throws == env.throwIn = "addPage" /\ depth = MaxStack
              content == IF throws THEN <<>> ELSE ParseHTML(x.overflowHTML)
              r2 == addPage(Logged(r1, LogEntry(r, p, depth, sh, x, "new", content)),
                            throws)
              n == Len(r2.pages)
              r3 == [r2 EXCEPT !.pages[n].ed = content]
              r4 == checkPageOverflow(r3, n, depth + 1, env)
          IN IF r2.err THEN r2
             ELSE IF r4.err THEN r4 ELSE updateUI(r4)
        ELSE \* prepend to the next page's editor, re-check it
          LET content == PrependOverflow(x.overflowHTML, r.pages[p + 1].ed)
              r2 == Logged(r1, LogEntry(r, p, depth, sh, x, "next", content))
              r3 == [r2 EXCEPT !.pages[p + 1].ed = content]
              r4 == checkPageOverflow(r3, p + 1, depth + 1, env)
          IN IF r4.err THEN r4 ELSE updateUI(r4)
      ELSE updateUI(Logged(r1, LogEntry(r, p, depth, sh, x, "none", <<>>)))
    ELSE updateUI(Logged(r, LogEntry(r, p, depth, sh, NoSplit(editor), "none", <<>>)))

\* checkPageOverflow on an editor whose page is no longer in the document:
\* its scrollHeight is 0, so it retries while it holds text
checkDetached(r, ref) ==
    IF ref = DetachedText THEN setTimeout(clearTimeout(r), ref) ELSE updateUI(r)

\* checkAllPagesForOverflow: forEach over the editors present at the call
RECURSIVE CheckFrom(_, _, _, _)
CheckFrom(r, p, n, env) ==
    IF p > n \/ r.err THEN r
    ELSE CheckFrom(checkPageOverflow(r, p, 0, env), p + 1, n, env)

\* checkAllPagesForOverflow dropping a last page it finds blank afterwards
checkAllPagesForOverflowDroppingBlank(r, env) ==
    LET r1 == CheckFrom(r, 1, Len(r.pages), env)
        n == Len(r1.pages)
    IN IF n > 1 /\ IsBlankHTML(r1.pages[n].ed)
       THEN updatePageNumbers([r1 EXCEPT !.pages = SubSeq(r1.pages, 1, n - 1)])
       ELSE r1

checkAllPagesForOverflow(r, env) == CheckFrom(r, 1, Len(r.pages), env)

\* loadDocument(filePath, content)
loadDocument(r, filePath, content, env) ==
    LET r1 == resetDocument(r)
        r2 == [r1 EXCEPT !.pages[1].ed = ParseHTML(content),
                         !.currentFilePath = filePath,
                         !.documentModified = FALSE]
    IN checkAllPagesForOverflow(updateUI(r2), env)

----------------------------------------------------------------------------
(* File operations: the renderer's requests and the main process *)

\* getAllContent: the innerHTML of the editors, concatenated in page order
RECURSIVE getAllContent(_)
getAllContent(ps) ==
    IF ps = <<>> THEN <<>> ELSE InnerHTML(Head(ps).ed) \o getAllContent(Tail(ps))

\* the channels main.js registers a handler for (ipcMain.handle)
HandledChannels ==
    {"show-save-dialog", "open-file", "save-file-dialog", "save-file",
     "export-to-pdf", "select-image"}

\* ipcRenderer.invoke(channel, {filePath, content}) not yet answered
Request(channel, filePath, content) ==
    [channel |-> channel, filePath |-> filePath, content |-> content]

\* a content property of a reply: markup, or undefined
Markup(markup) == [defined |-> TRUE, markup |-> markup]
Undefined == [defined |-> FALSE, markup |-> <<>>]

\* What an invocation resolves to, or its rejection.  A property the reply
\* object does not have reads as undefined: "undefined" for filePath,
\* Undefined for content, FALSE (falsy) for success and canceled.
Resolved(canceled, success, filePath, content) ==
    [kind |-> "resolved", canceled |-> canceled, success |-> success,
     filePath |-> filePath, content |-> content]

Rejected == [kind |-> "rejected", canceled |-> FALSE, success |-> FALSE,
             filePath |-> "undefined", content |-> Undefined]

\* the main process's variables as one record
Main == [currentFilePath |-> mainCurrentFilePath,
         documentIsModified |-> documentIsModified,
         recentFiles |-> recentFiles]

\* recentFiles.indexOf(filePath), 1-based; 0 when it is not in the list
indexOf(files, filePath) ==
    LET at == {i \in 1..Len(files) : files[i] = filePath}
    IN IF at = {} THEN 0 ELSE CHOOSE i \in at : \A j \in at : i <= j

\* recentFiles.splice(index, 1)
splice(files, index) ==
    SubSeq(files, 1, index - 1) \o SubSeq(files, index + 1, Len(files))

\* addToRecentFiles without the removal of the entry already there
addToRecentFilesKeepingOld(files, filePath) ==
    LET added == <<filePath>> \o files
    IN IF Len(added) > MAX_RECENT_FILES
       THEN SubSeq(added, 1, Len(added) - 1) ELSE added

\* addToRecentFiles(filePath): splice the entry out if present, unshift,
\* pop when longer than MAX_RECENT_FILES
addToRecentFiles(files, filePath) ==
    LET index == indexOf(files, filePath)
        removed == IF index # 0 THEN splice(files, index) ELSE files
        added == <<filePath>> \o removed
    IN IF Len(added) > MAX_RECENT_FILES
       THEN SubSeq(added, 1, Len(added) - 1) ELSE added

\* clearRecentFiles: recentFiles.length = 0
clearRecentFiles(files) == <<>>

\* openSpecificFile(filePath): a file that no longer exists is taken out of
\* the list; a file that cannot be read leaves everything as it was
openSpecificFile(m, filePath, exists, throws) ==
    LET index == indexOf(m.recentFiles, filePath)
    IN IF ~exists
       THEN [m EXCEPT !.recentFiles = IF index # 0 THEN splice(m.recentFiles, index)
                                      ELSE m.recentFiles]
       ELSE IF throws THEN m
       ELSE [m EXCEPT !.currentFilePath = filePath,
                      !.recentFiles = addToRecentFiles(m.recentFiles, filePath),
                      !.documentIsModified = FALSE]

\* What the user and the file system do to one handler run of the main
\* process: the dialog is cancelled or a path is chosen, the file (for
\* open: holding doc) is read or written, or fs throws.
Outcome(canceled, filePath, doc, fsThrows) ==
    [canceled |-> canceled, filePath |-> filePath, doc |-> doc,
     fsThrows |-> fsThrows]

\* ipcMain.handle('open-file')
handleOpenFile(m, o) ==
    IF ~o.canceled
    THEN IF o.fsThrows
         THEN [main |-> m, reply |-> Rejected]
         ELSE [main |-> [m EXCEPT !.currentFilePath = o.filePath,
                                  !.recentFiles = addToRecentFiles(@, o.filePath),
                                  !.documentIsModified = FALSE],
               reply |-> Resolved(FALSE, FALSE, o.filePath, Markup(InnerHTML(o.doc)))]
    ELSE [main |-> m, reply |-> Resolved(TRUE, FALSE, "undefined", Undefined)]

\* ipcMain.handle('save-file-dialog')
handleSaveFileDialog(m, o) ==
    IF ~o.canceled
    THEN [main |-> m, reply |-> Resolved(FALSE, FALSE, o.filePath, Undefined)]
    ELSE [main |-> m, reply |-> Resolved(TRUE, FALSE, "undefined", Undefined)]

\* ipcMain.handle('save-file')
handleSaveFile(m, q, o) ==
    IF o.fsThrows
    THEN [main |-> m, reply |-> Rejected]
    ELSE [main |-> [m EXCEPT !.currentFilePath = q.filePath,
                             !.recentFiles = addToRecentFiles(@, q.filePath),
                             !.documentIsModified = FALSE],
          reply |-> Resolved(FALSE, TRUE, "undefined", Undefined)]

\* ipcMain.handle('export-to-pdf')
handleExportToPdf(m, o) ==
    IF ~o.canceled
    THEN IF o.fsThrows
         THEN [main |-> m, reply |-> Rejected]
         ELSE [main |-> m, reply |-> Resolved(FALSE, TRUE, "undefined", Undefined)]
    ELSE [main |-> m, reply |-> Resolved(TRUE, FALSE, "undefined", Undefined)]

\* The main process answering the invocation q: the handler registered for
\* its channel runs; Electron rejects an invocation on a channel without a
\* handler ("No handler registered for ...").
invoke(m, q, o) ==
    IF q.channel \notin HandledChannels THEN [main |-> m, reply |-> Rejected]
    ELSE IF q.channel = "open-file" THEN handleOpenFile(m, o)
    ELSE IF q.channel = "save-file-dialog" THEN handleSaveFileDialog(m, o)
    ELSE IF q.channel = "save-file" THEN handleSaveFile(m, q, o)
    ELSE IF q.channel = "export-to-pdf" THEN handleExportToPdf(m, o)
    ELSE [main |-> m, reply |-> Resolved(o.canceled, FALSE, o.filePath, Undefined)]

\* editor.innerHTML = undefined: the text "undefined", one line high
UndefinedText == Text(20, FALSE)

\* The renderer's functions from their await on.  Each gives the renderer
\* afterwards (r), the invocations it made (sent) and what it did (op).
Resumed(r, sent, op) == [r |-> r, sent |-> sent, op |-> op]

\* openFile, from the reply of 'open-file': any reply object is truthy, so
\* loadDocument runs with what the object holds; without a filePath its
\* closing showToast throws a TypeError, which openFile catches
openFileResumed(r, reply, env) ==
    IF reply.kind = "rejected" THEN Resumed(r, <<>>, "openFailed")
    ELSE Resumed(loadDocument(r, reply.filePath,
                              IF reply.content.defined THEN reply.content.markup
                              ELSE InnerHTML(<<UndefinedText>>),
                              env),
                 <<>>, IF reply.canceled THEN "openCancelled" ELSE "load")

\* saveDocumentToFile up to its await
saveDocumentToFile(r, filePath) ==
    Request("save-document", filePath, getAllContent(r.pages))

\* saveDocumentToFile recording the save without looking at the reply
saveDocumentToFileResumedAnyReply(r, q, reply) ==
    Resumed([r EXCEPT !.currentFilePath = q.filePath,
                      !.documentModified = FALSE], <<>>,
            IF reply.kind = "resolved" /\ reply.success THEN "saved" ELSE "saveFailed")

\* saveDocumentToFile, from the reply of 'save-document'
saveDocumentToFileResumed(r, q, reply) ==
    IF reply.kind = "resolved" /\ reply.success
    THEN Resumed([r EXCEPT !.currentFilePath = q.filePath,
                           !.documentModified = FALSE], <<>>, "saved")
    ELSE Resumed(r, <<>>, "saveFailed")

\* saveFileAs, from the reply of 'save-file-as'
saveFileAsResumed(r, reply) ==
    IF reply.kind = "resolved" /\ reply.filePath # "undefined"
    THEN Resumed(r, <<saveDocumentToFile(r, reply.filePath)>>, "saveAsChosen")
    ELSE Resumed(r, <<>>, IF reply.kind = "rejected" THEN "saveAsFailed"
                        ELSE "saveAsCancelled")

\* exportPDF, from the reply of 'export-pdf'
exportPDFResumed(r, reply) ==
    Resumed(r, <<>>, IF reply.kind = "resolved" /\ reply.success
                   THEN "exported" ELSE "exportFailed")

\* the awaiting function of the invocation q runs on with the reply
resume(r, q, reply, env) ==
    IF q.channel = "open-file" THEN openFileResumed(r, reply, env)
    ELSE IF q.channel = "save-document" THEN saveDocumentToFileResumed(r, q, reply)
    ELSE IF q.channel = "save-file-as" THEN saveFileAsResumed(r, reply)
    ELSE exportPDFResumed(r, reply)

----------------------------------------------------------------------------
(* The handlers as actions *)

\* setupAutoPageBreak: the MutationObserver on the first page's editor (the
\* only editor present at init) runs after the handler that changed the
\* editor's children: clearTimeout / setTimeout(check(target), 500)
Observed(before, r) ==
    IF r.pages[1].ed # before.pages[1].ed THEN setTimeout(clearTimeout(r), 1) ELSE r

\* What the last handler run did: its name and whether it ended in a
\* RangeError, the geometry it read; with last.detail also the pages and the
\* focused editor and pageHeight before it and its checkPageOverflow calls;
\* for an open, the position the file had in recentFiles (0: it had none).
Brief(detail, op, err) ==
    [detail |-> detail, op |-> op, pages |-> <<>>, activeElement |-> 0,
     editor |-> 0, doc |-> <<>>, geometry |-> NoGeometry, pageHeight |-> 0,
     index |-> 0, log |-> <<>>, err |-> err, cancelled |-> FALSE]

Record(op, before, r) ==
    IF last.detail
    THEN [detail |-> TRUE, op |-> op, pages |-> before.pages,
          activeElement |-> before.activeElement, editor |-> 0, doc |-> <<>>,
          geometry |-> NoGeometry, pageHeight |-> before.pageHeight,
          index |-> 0, log |-> r.log, err |-> r.err, cancelled |-> r.cancelled]
    ELSE [Brief(FALSE, op, r.err) EXCEPT !.cancelled = r.cancelled]

\* a handler of the renderer has run: the renderer lives while the window
\* is open
CommitRenderer(r, l) ==
    /\ window = "open"
    /\ pages' = r.pages
    /\ typingTimer' = r.typingTimer
    /\ orphans' = r.orphans
    /\ unchecked' = r.unchecked
    /\ activeElement' = r.activeElement
    /\ selectedEditor' = r.selectedEditor
    /\ currentPage' = r.currentPage
    /\ totalPages' = r.totalPages
    /\ documentModified' = r.documentModified
    /\ currentFilePath' = r.currentFilePath
    /\ pageHeight' = r.pageHeight
    /\ tempDivs' = r.tempDivs
    /\ last' = l

Commit(r, l) == CommitRenderer(r, l) /\ UNCHANGED hostVars

RECURSIVE TotalNodes(_)
TotalNodes(ps) == IF ps = <<>> THEN 0 ELSE Len(Head(ps).ed) + TotalNodes(Tail(ps))

IsBlock(node) == node.k # "br"

Paths == {"a.html"}

\* documents on disk: the child nodes their markup parses to
Documents == SeqsUpTo(DocShapes, MaxDocNodes)

\* the documents the user opens in the course of an editing session
SessionDocuments ==
    { <<Elem(300), Elem(400), Elem(500)>>,
      <<Elem(400), Text(400, FALSE), Elem(700)>> }

\* the renderer after construction and init()
Constructed ==
    /\ pages = <<[num |-> 1, ed |-> <<>>]>>
    /\ typingTimer = 0
    /\ orphans = {}
    /\ unchecked = {}
    /\ activeElement = 1
    /\ selectedEditor = 1
    /\ currentPage = 1
    /\ totalPages = 1
    /\ documentModified = FALSE
    /\ currentFilePath = "none"
    /\ pageHeight \in {calculatePageDimensions([pageHeight |-> DefaultPageHeight], g).pageHeight :
                          g \in Geometries}
    /\ tempDivs = 0
    /\ mainCurrentFilePath = "none"
    /\ documentIsModified = FALSE
    /\ recentFiles = <<>>
    /\ savedStatusListeners = 0
    /\ window = "open"
    /\ inflight = <<>>

Init == Constructed /\ last = Brief(FALSE, "init", FALSE)

\* click or focus on the editor of page p
Focus(p) ==
    /\ Len(pages) <= MaxPages
    /\ p \in 1..Len(pages)
    /\ p # activeElement
    /\ \E after \in {FocusEditor(Renderer, p)} :
          Commit(after, Brief(last.detail, "input", FALSE))

\* the user types a block at the end of the focused editor: the input
\* listeners of setupPageEvents and of the document (handleEditorInput)
InputInsert(node) ==
    /\ Len(pages) <= MaxPages
    /\ activeElement >= 1
    /\ TotalNodes(pages) < MaxNodes
    /\ LET r == Renderer
           p == activeElement
           r1 == [r EXCEPT !.pages[p].ed = Append(SelectSeq(@, IsBlock), node)]
       IN \E after \in {Observed(r, handleEditorInput(markDocumentAsModified(r1), p))} :
            Commit(after, [Brief(last.detail, "input", FALSE) EXCEPT
                              !.cancelled = after.cancelled])

\* the user deletes the last block of the focused editor; the editing
\* surface leaves an emptied editor with or without a <br>
InputDelete(rest) ==
    /\ Len(pages) <= MaxPages
    /\ activeElement >= 1
    /\ LET r == Renderer
           p == activeElement
           blocks == SelectSeq(r.pages[p].ed, IsBlock)
           left == SubSeq(blocks, 1, Len(blocks) - 1)
           r1 == [r EXCEPT !.pages[p].ed = IF left = <<>> THEN rest ELSE left]
       IN /\ blocks # <<>>
          /\ \E after \in {Observed(r, handleEditorInput(markDocumentAsModified(r1), p))} :
                Commit(after, [Brief(last.detail, "input", FALSE) EXCEPT
                                  !.cancelled = after.cancelled])

\* a formatting command from the toolbar
ExecCmd ==
    /\ Len(pages) <= MaxPages
    /\ \E fired \in BOOLEAN : \E after \in {execCmd(Renderer, fired)} :
          Commit(after, Brief(last.detail, "format", FALSE))

\* A reference to an editor after the page at position gone was removed
AfterRemove(ref, gone) ==
    IF ref = gone THEN DetachedEmpty
    ELSE IF ref > gone THEN ref - 1 ELSE ref

RemoveAt(s, i) == SubSeq(s, 1, i - 1) \o SubSeq(s, i + 1, Len(s))

\* the keydown listener without its test for a blank region
BackspaceKeydownAnyContent(r) ==
    LET p == r.activeElement
    IN IF p >= 1 /\ p - 1 > 0
       THEN LET r1 == [r EXCEPT !.pages = RemoveAt(r.pages, p),
                                !.typingTimer = AfterRemove(r.typingTimer, p),
                                !.orphans = {AfterRemove(t, p) : t \in r.orphans},
                                !.unchecked = {AfterRemove(t, p) : t \in r.unchecked \ {p}},
                                !.selectedEditor = AfterRemove(r.selectedEditor, p),
                                !.activeElement = 0]
                r2 == updatePageNumbers(FocusEditor(r1, p - 1))
            IN [r2 EXCEPT !.totalPages = Len(r2.pages),
                          !.currentPage = IF r2.currentPage < Len(r2.pages)
                                          THEN r2.currentPage ELSE Len(r2.pages)]
       ELSE r

\* keydown listener: Backspace in an editor
BackspaceKeydown(r) ==
    LET p == r.activeElement
    IN IF p >= 1 /\ IsBlankHTML(r.pages[p].ed) /\ p - 1 > 0
       THEN LET r1 == [r EXCEPT !.pages = RemoveAt(r.pages, p),
                                !.typingTimer = AfterRemove(r.typingTimer, p),
                                !.orphans = {AfterRemove(t, p) : t \in r.orphans},
                                !.unchecked = {AfterRemove(t, p) : t \in r.unchecked \ {p}},
                                !.selectedEditor = AfterRemove(r.selectedEditor, p),
                                !.activeElement = 0]
                r2 == updatePageNumbers(FocusEditor(r1, p - 1))
            IN [r2 EXCEPT !.totalPages = Len(r2.pages),
                          !.currentPage = IF r2.currentPage < Len(r2.pages)
                                          THEN r2.currentPage ELSE Len(r2.pages)]
       ELSE r

Backspace ==
    /\ activeElement >= 1
    /\ \E r \in {Renderer} : \E after \in {BackspaceKeydown(r)} :
          Commit(after, Record("backspace", r, after))

\* the Add Page button
AddPage ==
    /\ Len(pages) < MaxPages
    /\ \E r \in {Renderer} : \E after \in {Observed(r, addPage(r, FALSE))} :
          Commit(after, Brief(last.detail, "addPage", FALSE))

\* the editors with a check pending: one per timeout not yet fired or cleared
PendingChecks == (IF typingTimer = 0 THEN {} ELSE {typingTimer}) \cup orphans

\* a debounce (or retry) timeout fires: checkPageOverflow(editor)
TimerFires ==
    /\ Len(pages) <= MaxPages
    /\ \E editor \in PendingChecks :
        LET r == IF editor = typingTimer
                 THEN [Renderer EXCEPT !.typingTimer = 0]
                 ELSE [Renderer EXCEPT !.orphans = @ \ {editor}]
            run(env) == IF editor >= 1
                        THEN checkPageOverflow(r, editor, 0, env)
                        ELSE checkDetached(r, editor)
        IN \E env \in Envs(run(NoEnv)) : \E after \in {Observed(r, run(env))} :
             Commit(after, [Record("check", r, after) EXCEPT !.editor = editor])

\* createNewDocument: confirm when modified, then resetDocument
NewDocument ==
    \E confirmed \in BOOLEAN :
        LET r == Renderer
            r1 == IF documentModified /\ ~confirmed THEN r ELSE resetDocument(r)
        IN \E after \in {Observed(r, r1)} :
             Commit(after, [Record("new", r, after) EXCEPT
                               !.op = IF documentModified /\ ~confirmed
                                      THEN "declined" ELSE "new"])

\* openFile with the host returning a document: loadDocument
OpenFile(docs) ==
    /\ Len(pages) <= MaxPages
    /\ \E confirmed \in BOOLEAN, path \in Paths, doc \in docs :
        LET r == Renderer
            run(env) == IF documentModified /\ ~confirmed THEN r
                        ELSE loadDocument(r, path, InnerHTML(doc), env)
        IN \E env \in Envs(run(NoEnv)) : \E after \in {Observed(r, run(env))} :
            Commit(after,
                   [Record("load", r, after) EXCEPT
                       !.op = IF documentModified /\ ~confirmed THEN "declined" ELSE "load",
                       !.doc = IF documentModified /\ ~confirmed THEN <<>> ELSE doc,
                       !.pages = IF last.detail THEN <<[num |-> 1, ed |-> doc]>> ELSE <<>>])

\* the renderer invokes the main process: the request q is in flight
Invoke(q, op) ==
    /\ Len(inflight) < MaxInFlight
    /\ CommitRenderer(Renderer, Brief(last.detail, op, FALSE))
    /\ inflight' = Append(inflight, q)
    /\ UNCHANGED <<mainCurrentFilePath, documentIsModified, recentFiles,
                   savedStatusListeners, window>>

\* openFile up to its await: confirm when modified, invoke 'open-file'
OpenFileRequest ==
    \E confirmed \in BOOLEAN :
        IF documentModified /\ ~confirmed
        THEN Commit(Renderer, Brief(last.detail, "declined", FALSE))
        ELSE Invoke(Request("open-file", "undefined", <<>>), "openRequest")

\* saveFile up to the first await: saveDocumentToFile when there is a
\* path, else saveFileAs
saveFile(r) ==
    IF r.currentFilePath \notin {"none", "undefined"}
    THEN saveDocumentToFile(r, r.currentFilePath)
    ELSE Request("save-file-as", "undefined", <<>>)

SaveFile ==
    Invoke(saveFile(Renderer),
           IF currentFilePath \notin {"none", "undefined"}
           THEN "saveRequest" ELSE "saveAsRequest")

\* saveFileAs up to its await
SaveFileAs ==
    Invoke(Request("save-file-as", "undefined", <<>>), "saveAsRequest")

\* exportPDF up to its await: refused without a path or when modified
ExportPDF ==
    IF currentFilePath \in {"none", "undefined"} \/ documentModified
    THEN Commit(Renderer, Brief(last.detail, "exportRefused", FALSE))
    ELSE Invoke(Request("export-pdf", currentFilePath, <<>>), "exportRequest")

\* the files the user picks in the open dialog
FileDocuments ==
    { <<Elem(300), Elem(400), Elem(500)>>,
      <<Elem(400), Elem(700), Text(400, TRUE)>> }

\* what can happen to an invocation in the main process
Outcomes ==
    {Outcome(TRUE, "undefined", <<>>, FALSE)}
        \cup {Outcome(FALSE, path, doc, fsThrows) :
                 path \in Paths, doc \in FileDocuments, fsThrows \in BOOLEAN}

\* The main process answers an invocation and the awaiting function of the
\* renderer runs on with the reply.
HostRepliesWith(outcomes) ==
    /\ Len(pages) <= MaxPages
    /\ \E i \in 1..Len(inflight) : \E o \in outcomes :
        LET q == inflight[i]
            r == Renderer
            h == invoke(Main, q, o)
            run(env) == resume(r, q, h.reply, env)
        IN \E env \in Envs(run(NoEnv).r) : \E res \in {run(env)} :
           \E after \in {Observed(r, res.r)} :
             /\ CommitRenderer(after,
                    [Record(res.op, r, after) EXCEPT
                        !.index = IF res.op = "load"
                                  THEN indexOf(recentFiles, o.filePath) ELSE 0,
                        !.doc = IF res.op = "load" THEN o.doc
                                ELSE IF res.op = "saved" THEN ParseHTML(q.content)
                                ELSE <<>>])
             /\ mainCurrentFilePath' = h.main.currentFilePath
             /\ documentIsModified' = h.main.documentIsModified
             /\ recentFiles' = h.main.recentFiles
             /\ UNCHANGED <<savedStatusListeners, window>>
             /\ inflight' = RemoveAt(inflight, i) \o res.sent

HostReplies == HostRepliesWith(Outcomes)

\* the files of the recent-files session
RecentPaths == {"a.html", "b.html", "c.html", "d.html", "e.html", "f.html"}

RecentOutcomes ==
    {Outcome(TRUE, "undefined", <<>>, FALSE)}
        \cup {Outcome(FALSE, path, <<Elem(300)>>, fsThrows) :
                 path \in RecentPaths, fsThrows \in BOOLEAN}

\* File > Open Recent > a file of the list: openSpecificFile.  The renderer
\* has no listener for 'document-opened', so its document stays.
OpenRecent ==
    \E i \in 1..Len(recentFiles) : \E exists, throws \in BOOLEAN :
        LET m == openSpecificFile(Main, recentFiles[i], exists, throws)
        IN /\ CommitRenderer(Renderer,
                  [Brief(last.detail, IF ~exists THEN "recentMissing"
                                      ELSE IF throws THEN "recentFailed"
                                      ELSE "openedRecent", FALSE)
                      EXCEPT !.index = i])
           /\ mainCurrentFilePath' = m.currentFilePath
           /\ documentIsModified' = m.documentIsModified
           /\ recentFiles' = m.recentFiles
           /\ UNCHANGED <<savedStatusListeners, window, inflight>>

\* File > Open Recent > Clear Recent Files (offered when the list has entries)
ClearRecent ==
    /\ recentFiles # <<>>
    /\ CommitRenderer(Renderer, Brief(last.detail, "clearRecent", FALSE))
    /\ recentFiles' = clearRecentFiles(recentFiles)
    /\ UNCHANGED <<mainCurrentFilePath, documentIsModified,
                   savedStatusListeners, window, inflight>>

\* the beforeunload listener: e.returnValue = true when the document is
\* modified, which makes Electron cancel the close
beforeunload(r) == r.documentModified

\* the handler runs that are a request to close the window
CloseOps == {"closeSave", "closeDiscard", "closeCancel", "closeKept", "closed"}

\* The user asks to close the window: mainWindow.on('close').  With
\* documentIsModified the close is prevented and the dialog shown (response
\* 0 Save, 1 Don't Save, 2 Cancel); otherwise, and for the close app.quit()
\* makes, the window closes unless the renderer's beforeunload cancels it.
CloseWindow ==
    LET r == Renderer
        closes == IF beforeunload(r) THEN "open" ELSE "closed"
    IN IF documentIsModified
       THEN \E response \in {0, 1, 2} :
              IF response = 0
              THEN /\ Len(inflight) < MaxInFlight
                   /\ CommitRenderer(r, Brief(last.detail, "closeSave", FALSE))
                   /\ savedStatusListeners' = savedStatusListeners + 1
                   /\ inflight' = Append(inflight, saveFile(r))
                   /\ UNCHANGED <<mainCurrentFilePath, documentIsModified,
                                  recentFiles, window>>
              ELSE IF response = 1
              THEN /\ CommitRenderer(r, Brief(last.detail, "closeDiscard", FALSE))
                   /\ documentIsModified' = FALSE
                   /\ window' = closes
                   /\ UNCHANGED <<mainCurrentFilePath, recentFiles,
                                  savedStatusListeners, inflight>>
              ELSE Commit(r, Brief(last.detail, "closeCancel", FALSE))
       ELSE /\ CommitRenderer(r, Brief(last.detail,
                                       IF beforeunload(r) THEN "closeKept" ELSE "closed",
                                       FALSE))
            /\ window' = closes
            /\ UNCHANGED <<mainCurrentFilePath, documentIsModified, recentFiles,
                           savedStatusListeners, inflight>>

\* the overflow pass made before the page dimensions are recalculated
handleResizeCheckingFirst(r, g, env) ==
    calculatePageDimensions(checkAllPagesForOverflow(r, env), g)

\* handleResize and the end of changeZoom: calculatePageDimensions, then
\* checkAllPagesForOverflow
handleResize(r, g, env) ==
    checkAllPagesForOverflow(calculatePageDimensions(r, g), env)

\* a viewport resize or a zoom change
Resize ==
    /\ Len(pages) <= MaxPages
    /\ \E g \in Geometries :
        LET r == Renderer
            run(env) == handleResize(r, g, env)
        IN \E env \in Envs(run(NoEnv)) : \E after \in {Observed(r, run(env))} :
            Commit(after, [Record("resize", r, after) EXCEPT !.geometry = g])

\* The document layouts typing produces: up to MaxLayoutPages pages, their
\* editors holding up to MaxLayoutNodes blocks in all
RECURSIVE Layouts(_, _)
Layouts(np, nn) ==
    IF np = 0 THEN {<<>>}
    ELSE UNION { { <<ed>> \o rest : rest \in Layouts(np - 1, nn - Len(ed)) } :
                    ed \in SeqsUpTo(LayoutShapes, nn) }

\* pages holding the regions eds, not yet numbered
RECURSIVE PagesOf(_)
PagesOf(eds) ==
    IF eds = <<>> THEN <<>>
    ELSE <<[num |-> 1, ed |-> Head(eds)]>> \o PagesOf(Tail(eds))

\* A document the user has typed, a check pending for the editor typed in last
InitLayout ==
    /\ \E np \in 1..MaxLayoutPages : \E eds \in Layouts(np, MaxLayoutNodes) :
            pages = NumberPages(PagesOf(eds), 0)
    /\ activeElement \in 1..Len(pages)
    /\ typingTimer = activeElement
    /\ orphans = {}
    /\ unchecked = {activeElement}
    /\ selectedEditor = activeElement
    /\ currentPage = activeElement
    /\ totalPages = Len(pages)
    /\ documentModified = TRUE
    /\ currentFilePath = "none"
    /\ pageHeight \in {calculatePageDimensions([pageHeight |-> DefaultPageHeight], g).pageHeight :
                          g \in Geometries}
    /\ tempDivs = 0
    /\ mainCurrentFilePath = "none"
    /\ documentIsModified = FALSE
    /\ recentFiles = <<>>
    /\ savedStatusListeners = 0
    /\ window = "open"
    /\ inflight = <<>>
    /\ last = Brief(TRUE, "init", FALSE)

\* one handler run on it
NextLayout ==
    \/ last.op = "init" /\ Backspace
    \/ last.op = "init" /\ AddPage
    \/ last.op = "init" /\ TimerFires
    \/ last.op = "init" /\ NewDocument
    \/ last.op = "init" /\ Resize

SpecLayout == InitLayout /\ [][NextLayout]_vars

\* A document opened in the freshly constructed editor
InitLoad == Constructed /\ last = Brief(TRUE, "init", FALSE)

NextLoad == last.op = "init" /\ OpenFile(Documents)

SpecLoad == InitLoad /\ [][NextLoad]_vars

\* The file operations of an editing session
NextFile ==
    \/ \E node \in InputShapes : InputInsert(node)
    \/ ExecCmd
    \/ AddPage
    \/ TimerFires
    \/ NewDocument
    \/ OpenFileRequest
    \/ SaveFile
    \/ SaveFileAs
    \/ ExportPDF
    \/ HostReplies

SpecFile == Init /\ [][NextFile]_vars

\* Closing the window of an editing session
NextClose ==
    \/ \E node \in InputShapes : InputInsert(node)
    \/ NewDocument
    \/ SaveFile
    \/ HostReplies
    \/ CloseWindow

SpecClose == Init /\ [][NextClose]_vars

\* the renderer and the main process after the files of paths were opened
\* in turn through File > Open, h their state before
RECURSIVE Opened(_, _)
Opened(h, paths) ==
    IF paths = <<>> THEN h
    ELSE LET q == Request("open-file", "undefined", <<>>)
             m == invoke(h.main, q, Outcome(FALSE, Head(paths), <<Elem(300)>>, FALSE))
             res == resume(h.r, q, m.reply, NoEnv)
         IN Opened([r |-> Observed(h.r, res.r), main |-> m.main], Tail(paths))

\* An editing session in which up to MaxOpens files were opened through
\* File > Open
InitRecent ==
    /\ \E g \in Geometries : \E paths \in SeqsUpTo(RecentPaths, MaxOpens) :
         \E h \in {Opened([r |-> [pages |-> <<[num |-> 1, ed |-> <<>>]>>,
                                  typingTimer |-> 0, orphans |-> {}, unchecked |-> {},
                                  activeElement |-> 1, selectedEditor |-> 1,
                                  currentPage |-> 1, totalPages |-> 1,
                                  documentModified |-> FALSE,
                                  currentFilePath |-> "none",
                                  pageHeight |-> calculatePageDimensions(
                                      [pageHeight |-> DefaultPageHeight], g).pageHeight,
                                  tempDivs |-> 0,
                                  log |-> <<>>, err |-> FALSE, cancelled |-> FALSE],
                            main |-> [currentFilePath |-> "none",
                                      documentIsModified |-> FALSE,
                                      recentFiles |-> <<>>]], paths)} :
            /\ pages = h.r.pages
            /\ typingTimer = h.r.typingTimer
            /\ orphans = h.r.orphans
            /\ unchecked = h.r.unchecked
            /\ activeElement = h.r.activeElement
            /\ selectedEditor = h.r.selectedEditor
            /\ currentPage = h.r.currentPage
            /\ totalPages = h.r.totalPages
            /\ documentModified = h.r.documentModified
            /\ currentFilePath = h.r.currentFilePath
            /\ pageHeight = h.r.pageHeight
            /\ tempDivs = h.r.tempDivs
            /\ mainCurrentFilePath = h.main.currentFilePath
            /\ documentIsModified = h.main.documentIsModified
            /\ recentFiles = h.main.recentFiles
    /\ savedStatusListeners = 0
    /\ window = "open"
    /\ inflight = <<>>
    /\ last = Brief(FALSE, "init", FALSE)

\* one more file opened, through File > Open or the recent-files menu, or
\* the list cleared
NextRecent ==
    \/ last.op = "init" /\ OpenFileRequest
    \/ last.op = "openRequest" /\ HostRepliesWith(RecentOutcomes)
    \/ last.op = "init" /\ OpenRecent
    \/ last.op = "init" /\ ClearRecent

SpecRecent == InitRecent /\ [][NextRecent]_vars

Next ==
    \/ \E p \in 1..MaxPages : Focus(p)
    \/ \E node \in InputShapes : InputInsert(node)
    \/ \E rest \in {<<>>, <<Br>>} : InputDelete(rest)
    \/ ExecCmd
    \/ Backspace
    \/ AddPage
    \/ TimerFires
    \/ NewDocument
    \/ OpenFile(SessionDocuments)
    \/ Resize

Spec == Init /\ [][Next]_vars

----------------------------------------------------------------------------
(* Properties *)

RECURSIVE Editors(_)
Editors(ps) == IF ps = <<>> THEN <<>> ELSE <<Head(ps).ed>> \o Editors(Tail(ps))

\* the blocks of a document in page order, placeholder break markers left out
Blocks(ps) == SelectSeq(Flatten(Editors(ps)), IsBlock)

\* a region whose full content height is within capacity + tolerance
Stable(nodes, cap) == ScrollHeight(nodes) <= cap + Tolerance

\* the handler runs that perform overflow checks
CheckOps == {"check", "resize", "load"}

\* no check of the last handler run was deferred to a retry
Completed ==
    /\ ~last.err
    /\ \A i \in 1..Len(last.log) : last.log[i].dest # "retry"

\* C1: Conservation.  After a handler run made of overflow checks, the
\* blocks of all regions in page order are the blocks before the run: none
\* duplicated, dropped, reordered or altered; only placeholder break markers
\* may come and go.
C1_Conservation ==
    last.op \in CheckOps => Blocks(pages) = Blocks(last.pages)

\* C2: Cascade termination.  An overflow check with the re-checks it
\* triggers reaches a fixed point: it ends without exhausting the call
\* stack, and every region it checked is then Stable.
C2_CascadeTerminates ==
    last.op \in CheckOps =>
        /\ ~last.err
        /\ \A i \in 1..Len(last.log) :
              last.log[i].dest # "retry" =>
                  Stable(pages[last.log[i].page].ed, pageHeight)

\* C3: Monotonic renumbering.  The page numbers of the pages in structural
\* order are 1, 2, ..., N, N the number of pages.
C3_PageNumbers ==
    \A i \in 1..Len(pages) : pages[i].num = i

\* the least 0-based index whose block makes the running total of heights
\* exceed cap; -1 when there is none
LeastExceeding(nodes, cap) ==
    LET exceeding == {i \in 0..(Len(nodes) - 1) :
                         SumHeights(SubSeq(nodes, 1, i + 1)) > cap}
    IN IF exceeding = {} THEN -1
       ELSE CHOOSE i \in exceeding : \A j \in exceeding : i <= j

\* C4: Split point.  Every split a check makes is at the least index k whose
\* block makes the running total exceed capacity: the blocks before k stay
\* (the placeholder when there are none), the blocks from k on are the
\* overflow in order; without such an index the overflow is empty and the
\* region unchanged.  For capacity 1000 and heights 300, 400, 500: k = 2.
C4_SplitPoint ==
    /\ \A i \in 1..Len(last.log) :
          LET e == last.log[i]
              k == LeastExceeding(e.pre, e.capacity)
          IN Overflows(e.scrollHeight, e.capacity) =>
                /\ e.splitIndex = k
                /\ k >= 0 =>
                      /\ e.post = IF k = 0 THEN <<Br>> ELSE SubSeq(e.pre, 1, k)
                      /\ ParseHTML(e.overflowHTML) = SubSeq(e.pre, k + 1, Len(e.pre))
                /\ k = -1 => e.overflowHTML = <<>> /\ e.post = e.pre
    /\ LET x == extractOverflowContent(<<Elem(300), Elem(400), Elem(500)>>, 1000)
       IN /\ x.splitIndex = 2
          /\ x.editor = <<Elem(300), Elem(400)>>
          /\ ParseHTML(x.overflowHTML) = <<Elem(500)>>

\* C5: Oversized-block policy.  A split at k = 0 leaves the region with the
\* placeholder alone and moves all its blocks, whole and in order, to the
\* front of the next page's region, or to a new page when the region is on
\* the last page.
C5_OversizedMovesWhole ==
    \A i \in 1..Len(last.log) :
        LET e == last.log[i]
        IN e.splitIndex = 0 =>
              /\ e.post = <<Br>>
              /\ e.dest = IF e.page = e.npages THEN "new" ELSE "next"
              /\ Len(e.installed) >= Len(e.pre)
              /\ SubSeq(e.installed, 1, Len(e.pre)) = e.pre

\* C6: No premature split.  A check of a region whose content height is at
\* most capacity + tolerance splits nothing, moves nothing and creates no
\* page, also when the height lies between capacity and capacity + tolerance.
C6_NoPrematureSplit ==
    /\ \A i \in 1..Len(last.log) :
          LET e == last.log[i]
          IN Stable(e.pre, e.capacity) =>
                /\ e.splitIndex = -1
                /\ e.overflowHTML = <<>>
                /\ e.post = e.pre
                /\ e.dest \in {"none", "retry"}
    /\ (last.op = "check" /\ last.log # <<>>
            /\ Stable(last.log[1].pre, last.log[1].capacity)) =>
          /\ Len(last.log) = 1
          /\ Editors(pages) = Editors(last.pages)

C6_Witness ==
    /\ last.op = "check"
    /\ Len(last.log) = 1
    /\ Len(last.log[1].pre) >= 2
    /\ ScrollHeight(last.log[1].pre) > last.log[1].capacity
    /\ Stable(last.log[1].pre, last.log[1].capacity)
    /\ last.log[1].scrollHeight # 0

C8_LastPageOverflow ==
    \A i \in 1..Len(last.log) :
        LET e == last.log[i]
        IN e.dest = "new" =>
              /\ e.installed = SubSeq(e.pre, e.splitIndex + 1, Len(e.pre))
              /\ i < Len(last.log)
              /\ last.log[i + 1].depth = e.depth + 1
              /\ last.log[i + 1].page = e.npages + 1
              /\ last.log[i + 1].npages = e.npages + 1
              /\ last.log[i + 1].pre = e.installed

\* the document the last run loaded holds 2.5 times the page capacity
LoadedTwoAndAHalf ==
    /\ last.op = "load"
    /\ Completed
    /\ 2 * SumHeights(Blocks(last.pages)) = 5 * pageHeight

\* each page but the last filled until the next block no longer fits
FrontLoaded ==
    /\ \A i \in 1..(Len(pages) - 1) :
          /\ pages[i].ed # <<>>
          /\ pages[i + 1].ed # <<>>
          /\ SumHeights(pages[i].ed) <= pageHeight
          /\ SumHeights(pages[i].ed) + Head(pages[i + 1].ed).h > pageHeight
    /\ Stable(pages[Len(pages)].ed, pageHeight)
    /\ Flatten(Editors(pages)) = Flatten(Editors(last.pages))

C10_BackwardMerge ==
    /\ Len(pages) >= 1
    /\ last.op = "backspace" =>
          LET p == last.activeElement
          IN IF IsBlankHTML(last.pages[p].ed) /\ p > 1
             THEN /\ Editors(pages) = RemoveAt(Editors(last.pages), p)
                  /\ \A i \in 1..Len(pages) : pages[i].num = i
                  /\ activeElement = p - 1
                  /\ selectedEditor = p - 1
                  /\ totalPages = Len(last.pages) - 1
             ELSE Editors(pages) = Editors(last.pages)

C10_Witness ==
    /\ last.op = "backspace"
    /\ Len(pages) = Len(last.pages) - 1
    /\ activeElement = last.activeElement - 1

\* C11: Every content or structural mutation leaves documentModified true:
\* a formatting command, and any input, add-page, empty-page removal or
\* overflow redistribution (after an edit, a zoom or a resize) that changes
\* a region or the number of pages.
C11_MutationMarksModified ==
    [][ (\/ last'.op = "format"
         \/ /\ last'.op \in {"input", "addPage", "backspace", "check", "resize"}
            /\ Editors(pages') # Editors(pages))
        => documentModified' ]_vars

\* C12: documentModified is false only if the content of the regions is the
\* content of the last successful save or of the last load, or the document
\* is a fresh empty one, also while a save is in flight.  As a step
\* property: a step that ends with the flag false is a load or a successful
\* save that leaves the loaded or saved content in the regions, a reset, or
\* a step from a state with the flag false that leaves the content as it is.
C12_UnmodifiedIsSaved ==
    [][ ~documentModified' =>
            \/ last'.op \in {"load", "saved"}
                  /\ Blocks(pages') = SelectSeq(last'.doc, IsBlock)
            \/ last'.op = "new" /\ Blocks(pages') = <<>>
            \/ ~documentModified /\ Blocks(pages') = Blocks(pages) ]_vars

\* a single page with an empty region, an unmodified session without a path
IsReset(ps, cur, total, path, modified) ==
    /\ Len(ps) = 1
    /\ ps[1].ed = <<>>
    /\ ps[1].num = 1
    /\ cur = 1
    /\ total = 1
    /\ path = "none"
    /\ ~modified

\* C13: Reset.  resetDocument, from any state (as load runs it first), and
\* a new document leave exactly one page with an empty region,
\* currentPage = 1, totalPages = 1, no currentFilePath and documentModified
\* false.
C13_Reset ==
    /\ \A r \in {resetDocument(Renderer)} :
          IsReset(r.pages, r.currentPage, r.totalPages, r.currentFilePath,
                  r.documentModified)
    /\ last.op = "new" =>
          IsReset(pages, currentPage, totalPages, currentFilePath, documentModified)

\* a new document made while a check was pending for a page behind the first
C13_Witness ==
    /\ last.op = "new"
    /\ typingTimer = DetachedText
    /\ Len(pages) = 1
    /\ mainCurrentFilePath # "none"

\* C14: Placeholder invariant.  No region is ever empty without the
\* placeholder break marker.  As a step property: the region of a page just
\* added, the region left by a reset, and every region an overflow check
\* leaves that was not empty before hold at least the placeholder.
C14_Placeholder ==
    [][ /\ last'.op = "addPage" => pages'[Len(pages')].ed # <<>>
        /\ last'.op = "new" => pages'[1].ed # <<>>
        /\ last'.op \in {"check", "resize"} =>
              \A i \in 1..Len(pages') :
                  pages'[i].ed = <<>> => i <= Len(pages) /\ pages[i].ed = <<>>
      ]_vars

\* C15: Debounce replacement.  Every timeout that is pending is the one
\* scheduled last: scheduling a check cancels the check that was pending,
\* so at most one check is pending (for any region), and the check that
\* runs is the latest scheduled.
C15_DebounceReplacement ==
    /\ orphans = {}
    /\ Cardinality(PendingChecks) <= 1

\* an input in the region of a page behind the first replaced a pending check
C15_Witness ==
    /\ last.op = "input"
    /\ last.cancelled
    /\ typingTimer = 2
    /\ PendingChecks = {2}

\* C16: Every content mutation in a region R leads to an overflow check of
\* R once input stops, whatever happens while R's check is pending.  As an
\* invariant: every region that had an input since it was last checked has
\* a check pending, which runs when its timeout fires.
C16_MutationLeadsToCheck ==
    unchecked \subseteq PendingChecks

\* the host's open, save, choose-location or export failed
FailedOps == {"openFailed", "saveFailed", "saveAsFailed", "exportFailed"}

\* C17: A failed open, save or export leaves the in-memory state as it was:
\* the regions, the number of pages, currentFilePath and documentModified
\* in the renderer, currentFilePath and documentIsModified in the main
\* process (also for its save-file, open-file and export-to-pdf handlers
\* when the file system throws).
C17_FailureLeavesState ==
    [][ /\ last'.op \in FailedOps =>
              UNCHANGED <<pages, totalPages, currentFilePath, documentModified,
                          mainCurrentFilePath, documentIsModified>>
        /\ \A path \in Paths, doc \in FileDocuments :
              LET failing == Outcome(FALSE, path, doc, TRUE)
              IN /\ handleSaveFile(Main, Request("save-file", path, <<>>), failing).main = Main
                 /\ handleOpenFile(Main, failing).main = Main
                 /\ handleExportToPdf(Main, failing).main = Main
      ]_vars

\* a save of a modified two-page document with a path was rejected
C17_Witness ==
    /\ last.op = "saveFailed"
    /\ documentModified
    /\ Len(pages) >= 2
    /\ currentFilePath \in Paths

\* C18: A cancelled open dialog leaves the document as it is: no reset, the
\* regions, the number of pages, currentFilePath and documentModified keep
\* their values; a cancelled choose-save-location sends no save and changes
\* no session field.
C18_CancelLeavesDocument ==
    [][ last'.op \in {"openCancelled", "saveAsCancelled"} =>
            /\ UNCHANGED <<pages, totalPages, currentPage, currentFilePath,
                           documentModified>>
            /\ Len(inflight') < Len(inflight) ]_vars

\* C19: Forward cascade.  When a page that is not the last overflows, the
\* overflow is put before the content the next page's region had, that
\* region is checked next, and no page is created; a page is created only
\* by a check of the last page that overflows.
C19_ForwardCascade ==
    \A i \in 1..Len(last.log) :
        LET e == last.log[i]
        IN /\ (e.page < e.npages /\ e.overflowHTML # <<>>) =>
                 /\ e.dest = "next"
                 /\ e.installed = ParseHTML(e.overflowHTML) \o e.next
                 /\ i < Len(last.log)
                 /\ last.log[i + 1].page = e.page + 1
                 /\ last.log[i + 1].depth = e.depth + 1
                 /\ last.log[i + 1].pre = e.installed
                 /\ last.log[i + 1].npages = e.npages
           /\ e.dest = "new" =>
                 /\ e.page = e.npages
                 /\ Overflows(e.scrollHeight, e.capacity)
           /\ i < Len(last.log) =>
                 last.log[i + 1].npages = e.npages + (IF e.dest = "new" THEN 1 ELSE 0)

\* an overflow was put before the blocks of the next page, and the cascade
\* went on to the last page, which overflowed into a new page
C19_Witness ==
    /\ last.op = "check"
    /\ Len(last.log) >= 3
    /\ last.log[1].dest = "next"
    /\ \E j \in 1..Len(last.log[1].next) : IsBlock(last.log[1].next[j])
    /\ last.log[2].dest = "new"
    /\ Len(pages) > Len(last.pages)

\* C20 as stated: the empty-page backward-delete is the only operation that
\* removes a page.
C20_OnlyBackspaceRemoves ==
    Len(pages) < Len(last.pages) => last.op = "backspace"

\* C20 amended: apart from reset (New Document, and load's first step), the
\* empty-page backward-delete is the only operation that removes a page;
\* overflow checks and redistribution never decrease the number of pages,
\* even when they leave a region holding only the placeholder.
C20_OnlyBackspaceOrResetRemoves ==
    /\ Len(pages) < Len(last.pages) => last.op \in {"backspace", "new", "load"}
    /\ last.op \in {"check", "resize"} => Len(pages) >= Len(last.pages)
    /\ last.op = "backspace" => Len(pages) >= Len(last.pages) - 1

\* a check left a region with the placeholder alone and removed no page
C20_Witness ==
    /\ last.op \in {"check", "resize"}
    /\ Len(pages) >= Len(last.pages)
    /\ \E i \in 1..Len(last.pages) :
          /\ pages[i].ed = <<Br>>
          /\ \E j \in 1..Len(last.pages[i].ed) : IsBlock(last.pages[i].ed[j])

\* C21: Zero-height retry.  A check that measures a height of zero for a
\* region holding a block splits nothing, moves nothing, creates no page and
\* schedules a new check of that region, which is pending when the handler
\* has run.
C21_ZeroHeightRetry ==
    \A i \in 1..Len(last.log) :
        LET e == last.log[i]
        IN (e.scrollHeight = 0 /\ \E j \in 1..Len(e.pre) : IsBlock(e.pre[j])) =>
              /\ e.dest = "retry"
              /\ e.splitIndex = -1 /\ e.overflowHTML = <<>> /\ e.post = e.pre
              /\ e.page \in PendingChecks

\* C22: calculatePageDimensions leaves pageHeight strictly positive: the
\* fixed default 1120 when page height minus header, footer, page padding and
\* the region's padding and margin is not positive, that difference otherwise.
C22_UsableHeight ==
    /\ pageHeight > 0
    /\ last.op = "resize" =>
          LET g == last.geometry
              difference == g.height - g.header - g.footer
                              - (g.padTop + g.padBottom)
                              - (g.edPadTop + g.edPadBottom)
                              - (g.edMarTop + g.edMarBottom)
          IN pageHeight = IF difference <= 0 THEN 1120 ELSE difference

\* a resize read a geometry whose difference is exactly zero
C22_Witness ==
    /\ last.op = "resize"
    /\ UsableHeight(last.geometry) = 0
    /\ pageHeight = DefaultPageHeight

\* the position in the log of the first check of page p, 0 when there is none
FirstCheck(log, p) ==
    LET at == {i \in 1..Len(log) : log[i].page = p}
    IN IF at = {} THEN 0 ELSE CHOOSE i \in at : \A j \in at : i <= j

\* C23: A zoom change or viewport resize recomputes the usable height first
\* and then checks every region that exists, in page order, against the
\* capacity just computed.
C23_ResizeRechecks ==
    last.op = "resize" =>
        /\ pageHeight = calculatePageDimensions(Renderer, last.geometry).pageHeight
        /\ \A i \in 1..Len(last.log) : last.log[i].capacity = pageHeight
        /\ \A p \in 1..Len(last.pages) : FirstCheck(last.log, p) > 0
        /\ \A p, q \in 1..Len(last.pages) :
              p < q => FirstCheck(last.log, p) < FirstCheck(last.log, q)

\* a resize changed the capacity and split a region of a two-page document
\* that fitted the capacity before
C23_Witness ==
    /\ last.op = "resize" /\ ~last.err
    /\ Len(last.pages) = 2
    /\ last.pageHeight # pageHeight
    /\ \E i \in 1..Len(last.log) :
          /\ last.log[i].splitIndex >= 0
          /\ Stable(last.log[i].pre, last.pageHeight)

C25_EmptyOverflowIsStable ==
    /\ \A i \in 1..Len(last.log) :
          LET e == last.log[i]
          IN (Overflows(e.scrollHeight, e.capacity) /\ e.overflowHTML = <<>>) =>
                /\ e.dest = "none"
                /\ e.post = e.pre
                /\ i < Len(last.log) => last.log[i + 1].depth = 0
    /\ (/\ last.op = "check" /\ Len(last.log) = 1
        /\ Overflows(last.log[1].scrollHeight, last.log[1].capacity)
        /\ last.log[1].overflowHTML = <<>>) => Editors(pages) = Editors(last.pages)

\* a check found a region too high and the splitter found no split in it
C25_Witness ==
    /\ last.op = "check" /\ Len(last.log) = 1
    /\ Overflows(last.log[1].scrollHeight, last.log[1].capacity)
    /\ last.log[1].overflowHTML = <<>>
    /\ Len(pages) = Len(last.pages)

\* C26: When a full pagination pass (load, zoom change, resize) completes
\* with every measurement available, every region of the document is Stable,
\* the regions of the pages the pass created or filled included.
C26_PassLeavesStable ==
    (last.op \in {"resize", "load"} /\ Completed) =>
        \A i \in 1..Len(pages) : Stable(pages[i].ed, pageHeight)

\* C27: totalPages is the number of pages and at least 1, currentPage lies
\* in 1..totalPages, and currentPage is the position of the page that holds
\* the focused region.
C27_PageCounters ==
    /\ totalPages = Len(pages)
    /\ totalPages >= 1
    /\ 1 <= currentPage /\ currentPage <= totalPages
    /\ activeElement >= 1 => currentPage = activeElement

\* C28: While the renderer's document has unsaved changes, the main
\* process's documentIsModified is true, so a request to close the window
\* is intercepted by the main process with the save dialog, and the window
\* is never closed with unsaved changes.
C28_CloseIntercepted ==
    /\ documentModified => documentIsModified
    /\ (last.op \in CloseOps /\ documentModified) =>
          last.op \in {"closeSave", "closeDiscard", "closeCancel"}
    /\ window = "closed" => ~documentModified

\* no path is in the list twice
NoPathTwice(files) ==
    \A i, j \in 1..Len(files) : files[i] = files[j] => i = j

\* C30 as stated: the recent-files list holds no path twice and at most 5
\* entries, and its first entry is the file most recently opened or saved
\* (the main process's currentFilePath).
C30_RecentFiles ==
    /\ NoPathTwice(recentFiles)
    /\ Len(recentFiles) <= 5
    /\ recentFiles # <<>> => recentFiles[1] = mainCurrentFilePath

\* C30 amended: the list holds no path twice and at most 5 entries; right
\* after a successful open its first entry is the file opened; adding a
\* path that is in the list moves it to the front without lengthening the
\* list, and a failed recent-file open or a clear never adds an entry.
C30_RecentFilesAfterOpen ==
    [][ LET adds == last'.op \in {"load", "openedRecent"}
        IN /\ NoPathTwice(recentFiles')
           /\ Len(recentFiles') <= 5
           /\ adds => /\ recentFiles' # <<>>
                      /\ recentFiles'[1] = mainCurrentFilePath'
           /\ (adds /\ last'.index # 0) =>
                  /\ recentFiles[last'.index] = recentFiles'[1]
                  /\ Len(recentFiles') = Len(recentFiles)
           /\ ~adds => Len(recentFiles') <= Len(recentFiles)
      ]_vars

\* a file in the middle of a full list was opened again
C30_Witness ==
    /\ last.op \in {"load", "openedRecent"}
    /\ last.index > 1
    /\ Len(recentFiles) = MAX_RECENT_FILES
    /\ recentFiles[1] = mainCurrentFilePath

====
